---------------------------- MODULE Spec2Model ----------------------------
(***************************************************************************)
(* Token ledger and throttled batch dispatch of the keepa client library.  *)
(*                                                                         *)
(* Four clients of the repository are modelled, selected by `client`:      *)
(*   "threaded"  keepaAPI/interface.py      API.ProductQuery + workers     *)
(*   "sync"      src/keepa/interface.py     Keepa                          *)
(*   "asyncOld"  src/keepa/interface.py     AsyncKeepa                     *)
(*   "async"     src/keepa/keepa_async.py   AsyncKeepa                     *)
(* A ThreadRequest worker is one action: its requests and sleeps touch no  *)
(* shared state before its final products.extend / err[0] and release.     *)
(*                                                                         *)
(* Further specifications: SpecLedger and SpecResync drive the ledger      *)
(* object UserStatus of keepaAPI/interface.py on its own; SpecScenario     *)
(* runs the threaded client and Keepa on one end-to-end scenario; SpecLive *)
(* runs Keepa and AsyncKeepa under fairness; SpecLegacy runs the API of    *)
(* keepaAPI/Interface.py; SpecDecode, SpecItems and SpecDomain apply the   *)
(* csv decoders, format_items and _domain_to_dcode to a caller's inputs.   *)
(*                                                                         *)
(* Time is in milliseconds.  Every instant at which the clock is read lies *)
(* on a grid of Grid ms: a sleep ends at the first grid instant at or      *)
(* after its deadline (time.sleep may return late, never early).  On that  *)
(* grid the floating point expressions of LocalUpdate are exact, so the    *)
(* integer arithmetic below is what Python computes.                       *)
(***************************************************************************)
EXTENDS Integers, Sequences, FiniteSets, TLC

VARIABLES
    client,       \* which implementation runs
    pc,           \* position of the main thread of control
    now,          \* the clock, int(time.time() * 1000)
    status,       \* the status dict: tokensLeft, refillIn, refillRate, timestamp
    tokens_left,  \* self.tokens_left of Keepa / AsyncKeepa
    args,         \* arguments of the call: nitems, wait, allow_errors
    idx,          \* dispatch index of the query loop
    batch,        \* the sub-batch of the current iteration
    products,     \* sub-batches whose products were appended, in order
    sent,         \* requests issued so far (status, product), with their answers
    outcome,      \* "none", "returned" or the category raised to the caller
    workers,      \* threaded: the ThreadRequest threads started
    sema,         \* threaded: permits left in the BoundedSemaphore
    err,          \* threaded: err[0]
    trace         \* history: what the last steps did

vars == <<client, pc, now, status, tokens_left, args, idx, batch, products, sent,
          outcome, workers, sema, err, trace>>

-----------------------------------------------------------------------------
(* Bounds of the model *)

\* HTTP requests one client run sends
MaxRequests == 7

\* a query asks for at most MaxBatches * REQUEST_LIMIT items or so
MaxBatches == 3

\* threaded: worker threads one ProductQuery starts
MaxWorkers == 3

\* threaded: the largest nthreads ProductQuery is called with
MaxThreads == 2

\* the clock is observed during the first MaxCycles refill cycles of a ledger run
MaxCycles == 2

\* operations applied to a ledger on its own in one run
MaxOps == 3

\* of which resyncs from the server
MaxResync == 1

\* numbers in the raw array of one field of a product's csv
MaxRaw == 6

\* product codes in the list handed to format_items
MaxItems == 4

(* Program constants *)

\* one refill cycle, in ms
CycleMs == 60000

\* refill cycles whose tokens can be banked
BankCycles == 60

\* the grid of clock instants, in ms: a quarter of a cycle
Grid == CycleMs \div 4

\* REQUEST_LIMIT / reqlim: identifiers per product request
REQUEST_LIMIT == 100

\* max_try of ThreadRequest
max_try == 5

\* time.sleep(60) of ThreadRequest, in ms
RetrySleepMs == 60000

\* Python's None in a field that otherwise holds a number
None == -(CycleMs * BankCycles)

Max(a, b) == IF a >= b THEN a ELSE b

Min(a, b) == IF a <= b THEN a ELSE b

\* first grid instant at or after t
GridCeil(t) == ((t + Grid - 1) \div Grid) * Grid

-----------------------------------------------------------------------------
(* UserStatus: the ledger of keepaAPI/interface.py *)

\* int(x) of a quotient n / d with d > 0: truncation towards zero
TruncDiv(n, d) == IF n >= 0 THEN n \div d ELSE -((-n) \div d)

\* LocalUpdate with the bank cap taken as 60 tokens, whatever the refill rate
LocalUpdate_FlatCap(st, t) ==
    LET lstrefil == st.timestamp - (CycleMs - st.refillIn)
        d        == t - lstrefil
        added    == st.tokensLeft + st.refillRate * TruncDiv(d, CycleMs)
        tokens   == IF d > CycleMs
                    THEN (IF added > BankCycles THEN BankCycles ELSE added)
                    ELSE st.tokensLeft
    IN  [st EXCEPT !.tokensLeft = tokens,
                   !.timestamp  = t,
                   !.refillIn   = CycleMs - (d % CycleMs)]

\* LocalUpdate without the cap on banked tokens
LocalUpdate_NoCap(st, t) ==
    LET lstrefil == st.timestamp - (CycleMs - st.refillIn)
        d        == t - lstrefil
        tokens   == IF d > CycleMs
                    THEN st.tokensLeft + st.refillRate * TruncDiv(d, CycleMs)
                    ELSE st.tokensLeft
    IN  [st EXCEPT !.tokensLeft = tokens,
                   !.timestamp  = t,
                   !.refillIn   = CycleMs - (d % CycleMs)]

\* UserStatus.LocalUpdate at clock reading t.
\* nrefil = d / 60000.0; nrefil > 1 iff d > 60000; int(nrefil) truncates;
\* int((1 - nrefil % 1) * 60000) = 60000 - (d mod 60000) on the grid.
LocalUpdate(st, t) ==
    LET lstrefil == st.timestamp - (CycleMs - st.refillIn)
        d        == t - lstrefil
        added    == st.tokensLeft + st.refillRate * TruncDiv(d, CycleMs)
        tokens   == IF d > CycleMs
                    THEN (IF added > BankCycles * st.refillRate
                          THEN BankCycles * st.refillRate
                          ELSE added)
                    ELSE st.tokensLeft
    IN  [st EXCEPT !.tokensLeft = tokens,
                   !.timestamp  = t,
                   !.refillIn   = CycleMs - (d % CycleMs)]

\* a RemoveTokens that projects the ledger and debits nothing
RemoveTokens_NoDebit(st, t, tokens) == LocalUpdate(st, t)

\* UserStatus.RemoveTokens
RemoveTokens(st, t, tokens) ==
    LET u == LocalUpdate(st, t)
    IN  [u EXCEPT !.tokensLeft = u.tokensLeft - tokens]

\* UserStatus.TimeToRefill, in ms (the code returns it divided by 1000.0)
TimeToRefill(st, t) ==
    LET timetorefil == st.timestamp + st.refillIn - t + 1000
    IN  IF timetorefil < 0 THEN 0 ELSE timetorefil

-----------------------------------------------------------------------------
(* The server: what a status answer can carry *)

\* refill rates, tokens per cycle
Rates == {1, 2}

\* refillIn values a status answer carries
RefillIns == {15000, 60000}

\* tokensLeft values a status answer carries to a ledger on its own: in debt,
\* empty, a few, and at the bank cap
LedgerTokens(rate) == {-2, 0, BankCycles * rate}

\* GetUserStatus answering 200 at instant t
LedgerStatuses(t) ==
    { [tokensLeft |-> k, refillIn |-> r, refillRate |-> rate, timestamp |-> t] :
        k \in UNION { LedgerTokens(q) : q \in Rates }, r \in RefillIns, rate \in Rates }

\* the statuses among them that respect the server's bank cap
GetUserStatus(t) ==
    { s \in LedgerStatuses(t) : s.tokensLeft <= BankCycles * s.refillRate }

NoStatus == [tokensLeft |-> 0, refillIn |-> CycleMs, refillRate |-> 1, timestamp |-> 0]

NoArgs ==
    [nitems |-> 0, wait |-> FALSE, allow_errors |-> FALSE, nthreads |-> 0,
     input |-> "ok"]

NoBatch == [lo |-> 0, hi |-> 0, nrequest |-> 0, remaining |-> 0, tokens |-> 0, wake |-> 0]

NoOutcome == [state |-> "none", category |-> "", request |-> ""]

-----------------------------------------------------------------------------
(* SpecLedger: a UserStatus driven by its operations in any order *)

InitLedger ==
    /\ client = "ledger"
    /\ pc = "ledger"
    /\ now = 0
    /\ status \in GetUserStatus(0)
    /\ tokens_left = 0
    /\ args = NoArgs
    /\ idx = 0
    /\ batch = NoBatch
    /\ products = <<>>
    /\ sent = <<>>
    /\ outcome = NoOutcome
    /\ workers = <<>>
    /\ sema = 0
    /\ err = FALSE
    /\ trace = [op |-> "UpdateFromServer", before |-> status, response |-> NoStatus,
               ops |-> 0, resyncs |-> 0]

LedgerFrame ==
    UNCHANGED <<client, pc, tokens_left, args, idx, batch, products, sent, outcome,
                workers, sema, err>>

\* time passes
Tick ==
    /\ client = "ledger"
    /\ now + Grid <= MaxCycles * CycleMs
    /\ now' = now + Grid
    /\ UNCHANGED <<status, trace>>
    /\ LedgerFrame

\* UserStatus.LocalUpdate()
Ledger_LocalUpdate ==
    /\ client = "ledger"
    /\ trace.ops < MaxOps
    /\ status' = LocalUpdate(status, now)
    /\ trace' = [trace EXCEPT !.op = "LocalUpdate", !.before = status, !.response = NoStatus,
                              !.ops = @ + 1]
    /\ UNCHANGED now
    /\ LedgerFrame

\* UserStatus.RemoveTokens(tokens)
Ledger_RemoveTokens ==
    /\ client = "ledger"
    /\ trace.ops < MaxOps
    /\ \E n \in 1..2 :
         /\ status' = RemoveTokens(status, now, n)
         /\ trace' = [trace EXCEPT !.op = "RemoveTokens", !.before = status, !.response = NoStatus,
                                   !.ops = @ + 1]
    /\ UNCHANGED now
    /\ LedgerFrame

\* UserStatus.UpdateFromServer(), the status request answered 200
Ledger_UpdateFromServer ==
    /\ client = "ledger"
    /\ trace.ops < MaxOps
    /\ trace.resyncs < MaxResync
    /\ status' \in GetUserStatus(now)
    /\ trace' = [trace EXCEPT !.op = "UpdateFromServer", !.before = status, !.response = NoStatus,
                              !.ops = @ + 1, !.resyncs = @ + 1]
    /\ UNCHANGED now
    /\ LedgerFrame

\* a resync that adds the tokens reported to the tokens held
UpdateFromResponse_Credit(st, response) ==
    [key \in DOMAIN st |->
        IF key = "tokensLeft" THEN st[key] + response[key] ELSE response[key]]

\* UserStatus.UpdateFromResponse(response): every key of the status is
\* overwritten with the value of the response
UpdateFromResponse(st, response) ==
    [key \in DOMAIN st |-> response[key]]

\* the instants at which the server can have stamped a response that the
\* client handles at instant t: t, or earlier for a response that was on its
\* way, or waiting to be handled, while the client went on
Stamps(t) == { t0 \in {t - Grid, t} : t0 >= 0 }

\* UserStatus.UpdateFromResponse(response), the response carrying a user status
Ledger_UpdateFromResponse ==
    /\ client = "ledger"
    /\ trace.ops < MaxOps
    /\ trace.resyncs < MaxResync
    /\ \E response \in UNION { GetUserStatus(t0) : t0 \in Stamps(now) } :
         /\ status' = UpdateFromResponse(status, response)
         /\ trace' = [trace EXCEPT !.op = "UpdateFromResponse", !.before = status,
                                   !.response = response,
                                   !.ops = @ + 1, !.resyncs = @ + 1]
    /\ UNCHANGED now
    /\ LedgerFrame

NextLedger ==
    \/ Tick
    \/ Ledger_LocalUpdate
    \/ Ledger_RemoveTokens
    \/ Ledger_UpdateFromServer

SpecLedger == InitLedger /\ [][NextLedger]_vars

\* SpecResync: a UserStatus that is resynchronised from responses
NextResync ==
    \/ Tick
    \/ Ledger_LocalUpdate
    \/ Ledger_RemoveTokens
    \/ Ledger_UpdateFromResponse

SpecResync == InitLedger /\ [][NextResync]_vars

-----------------------------------------------------------------------------
(* Claims about the ledger *)

\* C4: after any number of local projections, from any ledger state a server
\* status can establish, tokens_left <= 60 * refill_rate.
C4_CapInvariant ==
    status.tokensLeft <= BankCycles * status.refillRate

\* C4 witness: a projection whose credit went over the cap and was clamped to it
C4_Clamped ==
    /\ trace.op = "LocalUpdate"
    /\ status.tokensLeft = BankCycles * status.refillRate
    /\ LocalUpdate_NoCap(trace.before, status.timestamp).tokensLeft
         > BankCycles * status.refillRate

\* C5: a local projection never lowers tokens_left: over projections at
\* increasing instants with no debit in between, tokens_left never decreases.
C5_RefillMonotone ==
    [][Ledger_LocalUpdate => status'.tokensLeft >= status.tokensLeft]_vars

\* C5 witness: a projection that followed a projection at an earlier instant and
\* credited tokens
C5_Credited ==
    /\ trace.op = "LocalUpdate"
    /\ trace.before.timestamp < status.timestamp
    /\ trace.before.tokensLeft < status.tokensLeft

\* the whole refill cycles between the last refill instant of the ledger st,
\* timestamp - (60000 - refillIn), and the instant t
WholeCycles(st, t) ==
    (t - (st.timestamp - (CycleMs - st.refillIn))) \div CycleMs

\* C29: a local projection at instant now adds refill_rate * (whole refill
\* cycles elapsed since the last refill instant) to tokens_left before it
\* caps, for every number of whole cycles elapsed, one included.
C29_CreditsWholeCycles ==
    trace.op = "LocalUpdate" =>
        status.tokensLeft
          = Min(BankCycles * status.refillRate,
                trace.before.tokensLeft
                  + status.refillRate * WholeCycles(trace.before, status.timestamp))

\* the next refill instant of the ledger st
RefillInstant(st) == st.timestamp + st.refillIn

\* C35: local projection is path-independent: projecting the ledger to an
\* instant t1 and then to t2, with no debit or resync in between, gives the
\* same tokens_left and the same next refill instant as projecting it directly
\* to t2, for every t1, exact refill boundaries included.
C35_PathIndependent ==
    [][(Ledger_LocalUpdate /\ trace.op = "LocalUpdate" /\ status.timestamp < now) =>
          LET direct == LocalUpdate(trace.before, now)
          IN  /\ status'.tokensLeft = direct.tokensLeft
              /\ RefillInstant(status') = RefillInstant(direct)]_vars

-----------------------------------------------------------------------------
(* The server as the clients that send requests see it *)

\* HTTP status codes of an answer
Codes == {200, 400, 402, 405, 429, 500}

\* a table of status codes that does not list 402
SCODES_NoPayment(code) ==
    CASE code = 400 -> "REQUEST_REJECTED"
      [] code = 405 -> "METHOD_NOT_ALLOWED"
      [] code = 429 -> "NOT_ENOUGH_TOKEN"
      [] OTHER      -> "REQUEST_FAILED"

\* SCODES / scodes, and REQUEST_FAILED for a code they do not list
SCODES(code) ==
    CASE code = 400 -> "REQUEST_REJECTED"
      [] code = 402 -> "PAYMENT_REQUIRED"
      [] code = 405 -> "METHOD_NOT_ALLOWED"
      [] code = 429 -> "NOT_ENOUGH_TOKEN"
      [] OTHER      -> "REQUEST_FAILED"

\* tokensLeft values an answer carries: in debt, empty, some
ClientTokens == {-2, 0, 2}

ClientStatuses(t) ==
    { [tokensLeft |-> k, refillIn |-> Grid, refillRate |-> 1, timestamp |-> t] :
        k \in ClientTokens }

\* status = {"tokensLeft": None, "refillIn": None, "refillRate": None, "timestamp": None}
NoneStatus ==
    [tokensLeft |-> None, refillIn |-> None, refillRate |-> None, timestamp |-> None]

\* what the server can answer at instant t: a 200 whose body carries the user
\* status and an error object that is null or not; any other code, whose body
\* carries the user status or does not
AnswersWith(statuses) ==
    { [code |-> 200, hasStatus |-> TRUE, st |-> s, error |-> e] :
        s \in statuses, e \in BOOLEAN }
    \cup
    { [code |-> c, hasStatus |-> TRUE, st |-> s, error |-> FALSE] :
        c \in Codes \ {200}, s \in statuses }
    \cup
    { [code |-> c, hasStatus |-> FALSE, st |-> NoneStatus, error |-> FALSE] :
        c \in Codes \ {200} }

\* the end-to-end scenario: an account of 20 tokens per minute that holds 50
\* tokens when the client is constructed and when the query is made; what it
\* holds afterwards, once product requests have drawn on it
ScenarioStatuses(t) ==
    { [tokensLeft |-> 50, refillIn |-> Grid, refillRate |-> 20, timestamp |-> t] }

ScenarioLaterStatuses(t) ==
    { [tokensLeft |-> k, refillIn |-> Grid, refillRate |-> 20, timestamp |-> t] :
        k \in {-50, 0, 50} }

\* the user statuses the server reports to Keepa and AsyncKeepa at instant t
ServedStatuses(t) ==
    IF trace.scenario
    THEN (IF sent = <<>> THEN ScenarioStatuses(t) ELSE ScenarioLaterStatuses(t))
    ELSE ClientStatuses(t)

Answers(t) == AnswersWith(ServedStatuses(t))

\* numbers of items a query is called with
ItemCounts ==
    {1, 2} \cup { k * REQUEST_LIMIT : k \in 1..(MaxBatches - 1) }
           \cup { k * REQUEST_LIMIT + 1 : k \in 1..(MaxBatches - 1) }

\* the number of items of the end-to-end scenario
ScenarioItemCounts == {250}

\* numbers of items this run's query is called with
QueryItemCounts == IF trace.scenario THEN ScenarioItemCounts ELSE ItemCounts

-----------------------------------------------------------------------------
(* Keepa and AsyncKeepa *)

\* Keepa.time_to_refill / AsyncKeepa.time_to_refill, in ms (the code returns it
\* divided by 1000.0)
time_to_refill(st, tokens, t) ==
    LET timeatrefile == st.timestamp + st.refillIn
        timetorefil  == timeatrefile - t + 1000
        base         == IF timetorefil < 0 THEN 0 ELSE timetorefil
    IN  IF tokens < 0
        THEN base + ((-tokens) * CycleMs) \div st.refillRate
        ELSE base

Raise(category, request) ==
    /\ outcome' = [state |-> "raised", category |-> category, request |-> request]
    /\ pc' = "raised"

\* the record of one request and its answer: a status request ("token"), or a
\* product request for the slice lo..hi of the items
Sent(request, answer) ==
    [request |-> request,
     lo |-> IF request = "product" THEN batch.lo ELSE 0,
     hi |-> IF request = "product" THEN batch.hi ELSE 0,
     code |-> answer.code, error |-> answer.error]

\* where wait_for_tokens returns to: the product request of _request, or the
\* caller of the method for the AsyncKeepa of keepa_async.py, whose _request
\* does not call it
WaitReturn == IF client = "async" THEN "idle" ELSE "send"

\* wait_for_tokens without its test of tokens_left
AfterStatus_NoTest(at, tokens) ==
    CASE at = "new"  -> "idle"
      [] at = "wft1" -> WaitReturn
      [] at = "wft2" -> WaitReturn

\* a wait_for_tokens that starts over when its refresh still finds no token
AfterStatus_WaitsAgain(at, tokens) ==
    CASE at = "new"  -> "idle"
      [] at = "wft1" -> (IF tokens <= 0 THEN "sleep" ELSE WaitReturn)
      [] at = "wft2" -> (IF tokens <= 0 THEN "wft1" ELSE WaitReturn)

\* where control goes after the update_status made at position `at` has set
\* tokens_left to `tokens`: in wait_for_tokens, `if self.tokens_left <= 0`
AfterStatus(at, tokens) ==
    CASE at = "new"  -> "idle"
      [] at = "wft1" -> (IF tokens <= 0 THEN "sleep" ELSE WaitReturn)
      [] at = "wft2" -> WaitReturn

\* update_status at position `at`: _request("token", {"key": accesskey},
\* wait=False) answered by `answer`
update_status(answer, at) ==
    /\ trace.reqs < MaxRequests
    /\ trace' = [trace EXCEPT !.reqs = @ + 1]
    /\ sent' = Append(sent, Sent("token", answer))
    /\ IF answer.code # 200
       THEN Raise(SCODES(answer.code), "token") /\ UNCHANGED <<status, tokens_left>>
       ELSE IF answer.error
            THEN Raise("error.message", "token") /\ UNCHANGED <<status, tokens_left>>
            ELSE /\ tokens_left' = answer.st.tokensLeft
                 /\ status' = answer.st
                 /\ pc' = AfterStatus(at, answer.st.tokensLeft)
                 /\ UNCHANGED outcome

\* _request of keepa_async.py: the tokens_left and the status it stores on an
\* answer, from the keys the body carries
StoredTokens(answer, tokens) ==
    IF answer.hasStatus THEN answer.st.tokensLeft ELSE tokens

StoredStatus(answer, st) ==
    IF answer.hasStatus
    THEN [key \in DOMAIN st |-> answer.st[key]]
    ELSE st

\* update_status of the AsyncKeepa of keepa_async.py at position `at`: its
\* _request stores the user status of any answer that carries it and returns
\* the body of a 200 as it is
AsyncKeepa_update_status(answer, at) ==
    LET tl == StoredTokens(answer, tokens_left)
    IN  /\ trace.reqs < MaxRequests
        /\ trace' = [trace EXCEPT !.reqs = @ + 1]
        /\ sent' = Append(sent, Sent("token", answer))
        /\ tokens_left' = tl
        /\ status' = StoredStatus(answer, status)
        /\ IF answer.code = 200
           THEN pc' = AfterStatus(at, tl) /\ UNCHANGED outcome
           ELSE Raise(SCODES(answer.code), "token")

\* Keepa.__init__ / AsyncKeepa.create of src/keepa/interface.py
Keepa_init ==
    /\ client \in {"sync", "asyncOld"}
    /\ pc = "new"
    /\ \E answer \in Answers(now) : update_status(answer, "new")
    /\ UNCHANGED <<client, now, args, idx, batch, products, workers, sema, err>>

\* AsyncKeepa.create of keepa_async.py: no status request
AsyncKeepa_create ==
    /\ client = "async"
    /\ pc = "new"
    /\ tokens_left' = 0
    /\ status' = NoneStatus
    /\ pc' = "idle"
    /\ UNCHANGED <<client, now, args, idx, batch, products, sent, outcome, workers,
                   sema, err, trace>>

\* what a caller can pass: valid arguments, a list with no product code, an
\* offers count outside 20..100, a domain that is not in DCODES
Inputs == {"ok", "empty", "offers", "domain"}

\* the exception for an invalid input
InputError(input) ==
    CASE input = "empty"  -> "No valid product codes"
      [] input = "offers" -> "Parameter offers must be between 20 and 100"
      [] input = "domain" -> "Invalid domain code"

\* query(items, wait=...) up to its loop: format_items and the test of its
\* length, the test of offers; and, for a domain that is not in DCODES, the
\* _domain_to_dcode of the first _product_query, which raises before _request
query_call ==
    /\ client \in {"sync", "asyncOld", "async"}
    /\ pc = "idle"
    /\ \E n \in QueryItemCounts, w \in BOOLEAN, i \in Inputs :
         /\ args' = [nitems |-> IF i = "empty" THEN 0 ELSE n, wait |-> w,
                     allow_errors |-> FALSE, nthreads |-> 0, input |-> i]
         /\ IF i # "ok"
            THEN Raise(InputError(i), "input")
            ELSE pc' = "loop" /\ UNCHANGED outcome
    /\ idx' = 0
    /\ products' = <<>>
    /\ UNCHANGED <<client, now, status, tokens_left, batch, sent, workers,
                   sema, err, trace>>

\* nrequest of query: what is left, capped at REQUEST_LIMIT
nrequest_query(remaining) == Min(remaining, REQUEST_LIMIT)

\* one turn of `while idx < nitems` up to the call of _request, or the return
query_loop ==
    /\ client \in {"sync", "asyncOld", "async"}
    /\ pc = "loop"
    /\ IF idx < args.nitems
       THEN LET nrequest == nrequest_query(args.nitems - idx)
            IN  /\ batch' = [lo |-> idx, hi |-> idx + nrequest, nrequest |-> nrequest,
                             remaining |-> args.nitems - idx, tokens |-> tokens_left,
                             wake |-> 0]
                /\ pc' = IF client = "sync" /\ args.wait THEN "wft1" ELSE "send"
                /\ UNCHANGED outcome
       ELSE /\ outcome' = [state |-> "returned", category |-> "", request |-> ""]
            /\ pc' = "done"
            /\ UNCHANGED batch
    /\ UNCHANGED <<client, now, status, tokens_left, args, idx, products, sent,
                   workers, sema, err, trace>>

\* a call of the public method wait_for_tokens of the AsyncKeepa of
\* keepa_async.py; the caller makes it once, before the query
AsyncKeepa_wait_for_tokens ==
    /\ client = "async"
    /\ pc = "idle"
    /\ sent = <<>>
    /\ pc' = "wft1"
    /\ UNCHANGED <<client, now, status, tokens_left, args, idx, batch, products, sent,
                   outcome, workers, sema, err, trace>>

\* wait_for_tokens: the first update_status and the test tokens_left <= 0
wait_for_tokens_update ==
    /\ client \in {"sync", "asyncOld", "async"}
    /\ pc = "wft1"
    /\ \E answer \in Answers(now) :
         IF client = "async"
         THEN AsyncKeepa_update_status(answer, "wft1")
         ELSE update_status(answer, "wft1")
    /\ UNCHANGED <<client, now, args, idx, batch, products, workers, sema, err>>

\* wait_for_tokens: time.sleep(tdelay) / await asyncio.sleep(tdelay)
wait_for_tokens_sleep ==
    /\ client \in {"sync", "asyncOld", "async"}
    /\ pc = "sleep"
    /\ now' = GridCeil(now + time_to_refill(status, tokens_left, now))
    /\ trace' = [trace EXCEPT !.sleeps = @ + 1, !.cause = "tokens"]
    /\ pc' = "wft2"
    /\ UNCHANGED <<client, status, tokens_left, args, idx, batch, products, sent,
                   outcome, workers, sema, err>>

\* wait_for_tokens: the update_status after the sleep, and the return
wait_for_tokens_refresh ==
    /\ client \in {"sync", "asyncOld", "async"}
    /\ pc = "wft2"
    /\ \E answer \in Answers(now) :
         IF client = "async"
         THEN AsyncKeepa_update_status(answer, "wft2")
         ELSE update_status(answer, "wft2")
    /\ UNCHANGED <<client, now, args, idx, batch, products, workers, sema, err>>

\* a _request that retries a 429 whatever the wait flag
RetriedAfterWait_IgnoreWait(code, wait) == code = 429

\* a _request that retries any refusal when the caller waits
RetriedAfterWait_AnyCode(code, wait) == wait

\* _request: `status_code == "429" and wait`, the answer that is retried
RetriedAfterWait(code, wait) == code = 429 /\ wait

\* _request of Keepa and of AsyncKeepa in src/keepa/interface.py from its
\* requests.get / session.get on: one product request and what its answer leads to
Keepa_request ==
    /\ client \in {"sync", "asyncOld"}
    /\ pc = "send"
    /\ trace.reqs < MaxRequests
    /\ \E answer \in Answers(now) :
         /\ sent' = Append(sent, Sent("product", answer))
         /\ trace' = [trace EXCEPT !.reqs = @ + 1,
                                   !.answered = IF answer.code = 200 /\ ~answer.error
                                                THEN answer.st.tokensLeft ELSE @]
         /\ IF answer.code # 200
            THEN /\ IF RetriedAfterWait(answer.code, args.wait)
                    THEN pc' = "wft1" /\ UNCHANGED outcome
                    ELSE Raise(SCODES(answer.code), "product")
                 /\ UNCHANGED <<tokens_left, idx, products>>
            ELSE IF answer.error
                 THEN /\ Raise("error.message", "product")
                      /\ UNCHANGED <<tokens_left, idx, products>>
                 ELSE /\ tokens_left' = answer.st.tokensLeft
                      /\ idx' = idx + batch.nrequest
                      /\ products' = Append(products, <<batch.lo, batch.hi>>)
                      /\ pc' = "loop"
                      /\ UNCHANGED outcome
    /\ UNCHANGED <<client, now, status, args, batch, workers, sema, err>>

\* _request of AsyncKeepa in keepa_async.py: one product request and what its
\* answer leads to, the time.sleep after a 429 included
AsyncKeepa_request ==
    /\ client = "async"
    /\ pc = "send"
    /\ trace.reqs < MaxRequests
    /\ \E answer \in Answers(now) :
         LET tl == StoredTokens(answer, tokens_left)
             st == StoredStatus(answer, status)
         IN  /\ sent' = Append(sent, Sent("product", answer))
             /\ tokens_left' = tl
             /\ status' = st
             /\ IF answer.code = 200
                THEN /\ trace' = [trace EXCEPT !.reqs = @ + 1,
                                               !.answered = answer.st.tokensLeft]
                     /\ UNCHANGED now
                     /\ \/ /\ idx' = idx + batch.nrequest
                           /\ products' = Append(products, <<batch.lo, batch.hi>>)
                           /\ pc' = "loop"
                           /\ UNCHANGED outcome
                        \/ \* a body with an error object and no "products"
                           /\ answer.error
                           /\ Raise("No products in response", "product")
                           /\ UNCHANGED <<idx, products>>
                ELSE IF RetriedAfterWait(answer.code, args.wait)
                     THEN IF st = NoneStatus
                          THEN \* time_to_refill adds None to None
                               /\ Raise("TypeError", "product")
                               /\ trace' = [trace EXCEPT !.reqs = @ + 1]
                               /\ UNCHANGED <<now, idx, products>>
                          ELSE /\ now' = GridCeil(now + time_to_refill(st, tl, now))
                               /\ trace' = [trace EXCEPT !.reqs = @ + 1,
                                                         !.sleeps = @ + 1,
                                                         !.cause = "429"]
                               /\ pc' = "send"
                               /\ UNCHANGED <<outcome, idx, products>>
                     ELSE /\ Raise(SCODES(answer.code), "product")
                          /\ trace' = [trace EXCEPT !.reqs = @ + 1]
                          /\ UNCHANGED <<now, idx, products>>
    /\ UNCHANGED <<client, args, batch, workers, sema, err>>

-----------------------------------------------------------------------------
(* API.ProductQuery and ThreadRequest of keepaAPI/interface.py *)

\* the clients whose ProductQuery dispatches to threads: keepaAPI/interface.py
\* and the older keepaAPI/Interface.py, whose API is the same code but for the
\* error flag, which its ThreadRequest cannot set
ThreadedClients == {"threaded", "legacy"}

\* what GetUserStatus can answer with at instant t: as for the other clients,
\* and an account with two tokens per minute, in debt or at its bank cap
ThreadedStatuses(t) ==
    ClientStatuses(t) \cup
    { [tokensLeft |-> k, refillIn |-> Grid, refillRate |-> 2, timestamp |-> t] :
        k \in {-3, BankCycles * 2} }

\* status codes with which the server refuses a worker's product request: a
\* rejection, not enough tokens (every non-200 code raises in ProductQuery and
\* is handled by the one `except Exception` of ThreadRequest)
RefusalCodes == {400, 429}

\* how many of a worker's requests the server refuses before it answers 200:
\* none, one, or every one the worker makes
Refusals == {0, 1, max_try + 1}

\* numbers of ASINs ProductQuery is called with
ThreadedItemCounts == {1, 2, 3, REQUEST_LIMIT + 1}

\* what GetUserStatus answers with, and the numbers of ASINs, in this run
UserStatuses(t) ==
    IF trace.scenario THEN ScenarioStatuses(t) ELSE ThreadedStatuses(t)

AsinCounts == IF trace.scenario THEN ScenarioItemCounts ELSE ThreadedItemCounts

\* the bounds lo, hi of the Python slice a[start:stop] of a sequence of n elements
SliceBound(n, x) == IF x < 0 THEN Max(x + n, 0) ELSE Min(x, n)

PySlice(n, start, stop) ==
    LET lo == SliceBound(n, start)
        hi == SliceBound(n, stop)
    IN  [lo |-> lo, hi |-> Max(lo, hi)]

\* nrequest of ProductQuery without the test against the tokens
nrequest_IgnoreTokens(remaining, tokens) ==
    IF remaining > REQUEST_LIMIT THEN REQUEST_LIMIT ELSE remaining

\* nrequest of ProductQuery: what is left, capped by the tokens and by reqlim
nrequest_ProductQuery(remaining, tokens) ==
    LET n1 == IF remaining > tokens THEN tokens ELSE remaining
    IN  IF n1 > REQUEST_LIMIT THEN REQUEST_LIMIT ELSE n1

\* API.__init__: UserStatus(accesskey), which asks the server
API_init ==
    /\ client \in ThreadedClients
    /\ pc = "new"
    /\ \/ \E s \in UserStatuses(now) :
            /\ status' = s
            /\ pc' = "idle"
            /\ trace' = [trace EXCEPT !.reqs = @ + 1]
            /\ UNCHANGED outcome
       \/ \E c \in Codes \ {200} :
            /\ Raise(SCODES(c), "token")
            /\ trace' = [trace EXCEPT !.reqs = @ + 1, !.refused = c]
            /\ UNCHANGED status
    /\ UNCHANGED <<client, now, tokens_left, args, idx, batch, products, sent,
                   workers, sema, err>>

\* ProductQuery(asins, nthreads=..., allow_errors=...) up to its loop:
\* CheckASINs, which lets an empty list through, UpdateFromServer, and only
\* then the test of offers; the domain is not looked at here
ProductQuery_call ==
    /\ client \in ThreadedClients
    /\ pc = "idle"
    /\ \E n \in AsinCounts, a \in BOOLEAN, k \in 1..MaxThreads, i \in Inputs :
         /\ args' = [nitems |-> IF i = "empty" THEN 0 ELSE n, wait |-> FALSE,
                     allow_errors |-> a, nthreads |-> k, input |-> i]
         /\ \/ \E s \in UserStatuses(now) :
                 /\ status' = s
                 /\ IF i = "offers"
                    THEN Raise(InputError(i), "input") /\ UNCHANGED sema
                    ELSE /\ sema' = k
                         /\ pc' = "loop"
                         /\ UNCHANGED outcome
                 /\ trace' = [trace EXCEPT !.reqs = @ + 1]
            \/ \E c \in Codes \ {200} :
                 /\ Raise(SCODES(c), "token")
                 /\ trace' = [trace EXCEPT !.reqs = @ + 1, !.refused = c]
                 /\ UNCHANGED <<status, sema>>
    /\ idx' = 0
    /\ products' = <<>>
    /\ err' = FALSE
    /\ UNCHANGED <<client, now, tokens_left, batch, sent, workers>>

\* from the return of WaitForTokens to sema.acquire(): the size of the
\* sub-batch, the slice, the index and the debit, with the ledger st that
\* WaitForTokens left, at clock reading t
Dispatch(st, t) ==
    LET nrequest == nrequest_ProductQuery(args.nitems - idx, st.tokensLeft)
        slice    == PySlice(args.nitems, idx, idx + nrequest)
    IN  /\ batch' = [lo |-> slice.lo, hi |-> slice.hi, nrequest |-> nrequest,
                     remaining |-> args.nitems - idx, tokens |-> st.tokensLeft,
                     wake |-> 0]
        /\ idx' = idx + nrequest
        /\ status' = RemoveTokens(st, t, nrequest)
        /\ pc' = "acquire"

\* one turn of `while idx < nitems`: the error check, WaitForTokens('local') up
\* to its sleep and, when it does not sleep, the dispatch up to sema.acquire()
ProductQuery_loop ==
    /\ client \in ThreadedClients
    /\ pc = "loop"
    /\ IF idx < args.nitems
       THEN IF ~args.allow_errors /\ err
            THEN /\ Raise("Error in thread", "product")
                 /\ UNCHANGED <<status, idx, batch, trace>>
            ELSE /\ Len(workers) < MaxWorkers
                 /\ LET st == LocalUpdate(status, now)
                    IN  IF st.tokensLeft <= 0
                        THEN /\ status' = st
                             /\ batch' = [batch EXCEPT !.wake =
                                            GridCeil(now + TimeToRefill(st, now))]
                             /\ pc' = "sleep"
                             /\ UNCHANGED <<idx, trace>>
                        ELSE Dispatch(st, now) /\ UNCHANGED trace
                 /\ UNCHANGED outcome
       ELSE /\ pc' = "join"
            /\ UNCHANGED <<status, idx, batch, outcome, trace>>
    /\ UNCHANGED <<client, now, tokens_left, args, products, sent, workers, sema, err>>

\* WaitForTokens: the end of time.sleep(tdelay) and the LocalUpdate after it,
\* then the dispatch up to sema.acquire()
ProductQuery_wake ==
    /\ client \in ThreadedClients
    /\ pc = "sleep"
    /\ now' = Max(now, batch.wake)
    /\ trace' = [trace EXCEPT !.sleeps = @ + 1, !.cause = "tokens"]
    /\ Dispatch(LocalUpdate(status, now'), now')
    /\ UNCHANGED <<client, tokens_left, args, products, sent, outcome, workers,
                   sema, err>>

\* a semaphore that never blocks
sema_acquire_NoLimit(value) == TRUE

\* sema.acquire() of a BoundedSemaphore whose counter is `value`: it returns
\* when the counter is positive, and blocks otherwise
sema_acquire(value) == value > 0

\* sema.acquire() and the start of the thread
ProductQuery_start ==
    /\ client \in ThreadedClients
    /\ pc = "acquire"
    /\ sema_acquire(sema)
    /\ sema' = sema - 1
    /\ workers' = Append(workers, [lo |-> batch.lo, hi |-> batch.hi,
                                   nrequest |-> batch.nrequest,
                                   remaining |-> batch.remaining,
                                   tokens |-> batch.tokens,
                                   st |-> "running", ntry |-> 0, first |-> 0,
                                   t0 |-> now])
    /\ pc' = "loop"
    /\ UNCHANGED <<client, now, status, tokens_left, args, idx, batch, products,
                   sent, outcome, err, trace>>

\* ThreadRequest gives up once ntry > max_try: after max_try + 1 requests
GivesUp(refused) == refused > max_try

\* ThreadRequest of worker w, whole: its requests, of which the server refuses
\* the first `refused` with code c, each refusal followed by time.sleep(60);
\* then products.extend of the answer, whose tokensLeft (tl) nothing reads, or
\* err[0] = True, and sema.release().  A slice of more
\* than 100 ASINs, or a domain that dcodes.index does not find, makes
\* ProductQuery raise before it sends (code 0), each time.
ThreadRequest(w) ==
    /\ client = "threaded"
    /\ workers[w].st = "running"
    /\ \E k \in Refusals, c \in RefusalCodes, tl \in ClientTokens :
         LET me      == workers[w]
             toomany == me.hi - me.lo > REQUEST_LIMIT \/ args.input = "domain"
             refused == IF toomany THEN max_try + 1 ELSE k
             first   == IF toomany THEN 0 ELSE IF refused = 0 THEN 200 ELSE c
         IN  /\ now' = Max(now, me.t0 + refused * RetrySleepMs)
             /\ IF GivesUp(refused)
                THEN /\ workers' = [workers EXCEPT ![w] =
                                      [me EXCEPT !.st = "failed", !.ntry = refused,
                                                 !.first = first]]
                     /\ err' = TRUE
                     /\ UNCHANGED <<products, trace>>
                ELSE /\ workers' = [workers EXCEPT ![w] =
                                      [me EXCEPT !.st = "done", !.ntry = refused + 1,
                                                 !.first = first]]
                     /\ products' = Append(products, <<me.lo, me.hi>>)
                     /\ trace' = [trace EXCEPT !.answered = tl]
                     /\ UNCHANGED err
    /\ sema' = sema + 1
    /\ UNCHANGED <<client, pc, status, tokens_left, args, idx, batch, sent, outcome>>

\* the joins after the loop and `return products`
ProductQuery_join ==
    /\ client \in ThreadedClients
    /\ pc = "join"
    /\ \A w \in 1..Len(workers) : workers[w].st \in {"done", "failed", "died"}
    /\ outcome' = [state |-> "returned", category |-> "", request |-> ""]
    /\ pc' = "done"
    /\ UNCHANGED <<client, now, status, tokens_left, args, idx, batch, products,
                   sent, workers, sema, err, trace>>

-----------------------------------------------------------------------------
(* Spec: one client, constructed and then asked for products once *)

Clients == {"threaded", "sync", "asyncOld", "async"}

Init ==
    /\ client \in Clients
    /\ pc = "new"
    /\ now = 0
    /\ status = NoneStatus
    /\ tokens_left = 0
    /\ args = NoArgs
    /\ idx = 0
    /\ batch = NoBatch
    /\ products = <<>>
    /\ sent = <<>>
    /\ outcome = NoOutcome
    /\ workers = <<>>
    /\ sema = 0
    /\ err = FALSE
    /\ trace = [reqs |-> 0, sleeps |-> 0, cause |-> "", answered |-> None,
                scenario |-> FALSE, refused |-> 0]

Next ==
    \/ Keepa_init
    \/ AsyncKeepa_create
    \/ query_call
    \/ query_loop
    \/ AsyncKeepa_wait_for_tokens
    \/ wait_for_tokens_update
    \/ wait_for_tokens_sleep
    \/ wait_for_tokens_refresh
    \/ Keepa_request
    \/ AsyncKeepa_request
    \/ API_init
    \/ ProductQuery_call
    \/ ProductQuery_loop
    \/ ProductQuery_wake
    \/ ProductQuery_start
    \/ \E w \in 1..Len(workers) : ThreadRequest(w)
    \/ ProductQuery_join

Spec == Init /\ [][Next]_vars

-----------------------------------------------------------------------------
(* SpecScenario: the end-to-end scenario, with the threaded client and with
   Keepa *)

InitScenario ==
    /\ client \in {"threaded", "sync"}
    /\ pc = "new"
    /\ now = 0
    /\ status = NoneStatus
    /\ tokens_left = 0
    /\ args = NoArgs
    /\ idx = 0
    /\ batch = NoBatch
    /\ products = <<>>
    /\ sent = <<>>
    /\ outcome = NoOutcome
    /\ workers = <<>>
    /\ sema = 0
    /\ err = FALSE
    /\ trace = [reqs |-> 0, sleeps |-> 0, cause |-> "", answered |-> None,
                scenario |-> TRUE, refused |-> 0]

NextScenario ==
    \/ Keepa_init
    \/ query_call
    \/ query_loop
    \/ wait_for_tokens_update
    \/ wait_for_tokens_sleep
    \/ wait_for_tokens_refresh
    \/ Keepa_request
    \/ API_init
    \/ ProductQuery_call
    \/ ProductQuery_loop
    \/ ProductQuery_wake
    \/ ProductQuery_start
    \/ \E w \in 1..Len(workers) : ThreadRequest(w)

SpecScenario == InitScenario /\ [][NextScenario]_vars

-----------------------------------------------------------------------------
(* Claims about the size of a sub-batch and about waiting for tokens *)

\* the product requests among the requests sent so far, oldest first
ProductSent == SelectSeq(sent, LAMBDA e : e.request = "product")

\* this step sends one request and receives its answer, LastAnswer
Answered == Len(sent') = Len(sent) + 1

LastAnswer == sent'[Len(sent')]

C2_ReturnsPositive ==
    [][ /\ (pc \in {"wft1", "wft2"} /\ pc' = WaitReturn) => tokens_left' > 0
        /\ (client = "threaded" /\ pc' = "acquire") => batch'.tokens > 0 ]_vars

\* C2 amended: wait_for_tokens / WaitForTokens returns with tokens_left > 0
\* whenever it returns without sleeping; when tokens_left <= 0 it sleeps once,
\* refreshes the ledger once and returns (or the refresh raises), whatever
\* tokens_left the refresh gives.
C2_PositiveUnlessSlept ==
    [][ /\ (pc = "wft1" /\ pc' = WaitReturn) => tokens_left' > 0
        /\ (client = "threaded" /\ pc = "loop" /\ pc' = "acquire") => batch'.tokens > 0
        /\ (pc = "sleep" /\ pc' # pc)
             => pc' = (IF client = "threaded" THEN "acquire" ELSE "wft2")
        /\ (pc = "wft2" /\ pc' # pc) => pc' \in {WaitReturn, "raised"} ]_vars

\* C2 witness: the wait_for_tokens that _request calls before a product request
\* has slept and returned, and tokens_left is not positive
C2_ReturnedInDebt ==
    /\ client = "sync"
    /\ args.wait
    /\ pc = "send"
    /\ trace.sleeps >= 1
    /\ tokens_left <= 0

-----------------------------------------------------------------------------
(* Claims about the slices requested *)

\* the slices of the items that the sub-batches issued so far asked for, in the
\* order of dispatch
Issued ==
    IF client = "threaded"
    THEN [w \in 1..Len(workers) |-> <<workers[w].lo, workers[w].hi>>]
    ELSE products

\* slices are consecutive and their concatenation is the n items
ExactCover(slices, n) ==
    /\ Len(slices) >= 1
    /\ slices[1][1] = 0
    /\ slices[Len(slices)][2] = n
    /\ \A i \in 1..(Len(slices) - 1) : slices[i][2] = slices[i + 1][1]
    /\ \A i \in 1..Len(slices) : slices[i][1] <= slices[i][2]

\* C3 as stated: when query / ProductQuery returns normally, the sub-batches it
\* issued are consecutive, non-overlapping slices of the items, in input order,
\* and their concatenation is the item list: every identifier is requested
\* exactly once.
C3_ExactCover ==
    outcome.state = "returned" => ExactCover(Issued, args.nitems)

-----------------------------------------------------------------------------
(* Claims about the answers to a request *)

\* C6 as stated: a product request answered 429 when the caller passed wait=true
\* is waited for and re-issued with the same payload: the answer raises nothing,
\* the index does not move and the sub-batch stays the one to send.
C6_RetrySame ==
    [][ (Answered /\ LastAnswer.request = "product" /\ LastAnswer.code = 429
           /\ args.wait)
          => (pc' # "raised" /\ idx' = idx /\ batch' = batch) ]_vars

\* C7: a product request answered 429 when the caller passed wait=false makes
\* query raise NOT_ENOUGH_TOKEN; after a raise no request is sent and nothing is
\* returned.
C7_NoWaitRaises ==
    [][ /\ (Answered /\ LastAnswer.request = "product" /\ LastAnswer.code = 429
              /\ ~args.wait)
             => outcome' = [state |-> "raised", category |-> "NOT_ENOUGH_TOKEN",
                            request |-> "product"]
        /\ outcome.state = "raised" => (sent' = sent /\ outcome' = outcome) ]_vars

\* C7 witness: a query without wait raised NOT_ENOUGH_TOKEN after earlier
\* sub-batches had been answered with products
C7_RaisedAfterProducts ==
    /\ client = "sync"
    /\ ~args.wait
    /\ Len(products) >= 1
    /\ pc = "raised"
    /\ outcome = [state |-> "raised", category |-> "NOT_ENOUGH_TOKEN",
                  request |-> "product"]

\* C8 as stated: ProductQuery with allow_errors=false never returns when the
\* request of one of its sub-batches has failed for good.
C8_NoPartialReturn ==
    (client = "threaded" /\ ~args.allow_errors /\ outcome.state = "returned")
      => \A w \in 1..Len(workers) : workers[w].st # "failed"

\* status codes that are fatal whatever the wait flag
FatalCodes == Codes \ {200, 429}

\* _request raises the category of a fatal answer at once: no sleep, no re-send
RaisedAtOnce ==
    (Answered /\ LastAnswer.code \in FatalCodes)
      => /\ outcome' = [state |-> "raised", category |-> SCODES(LastAnswer.code),
                        request |-> LastAnswer.request]
         /\ pc' = "raised"
         /\ now' = now
         /\ trace'.sleeps = trace.sleeps

C10_ErrorBodyRaises ==
    [][ (Answered /\ LastAnswer.code = 200 /\ LastAnswer.error)
          => (pc' = "raised" /\ outcome'.category = "error.message") ]_vars

-----------------------------------------------------------------------------
(* Claims about the arguments of a query and about construction *)

\* C11 as stated: a product query rejected for invalid input (no product code,
\* offers outside 20..100, unknown domain) raises before any HTTP request is
\* sent, the status request included, and leaves tokens_left and the stored
\* status as they were.
C11_RejectedBeforeRequest ==
    [][ (pc = "idle" /\ args'.input # "ok")
          => /\ outcome' = [state |-> "raised", category |-> InputError(args'.input),
                            request |-> "input"]
             /\ trace'.reqs = trace.reqs
             /\ status' = status
             /\ tokens_left' = tokens_left ]_vars

\* C12 as stated: immediately after Keepa.__init__ or AsyncKeepa.create, one
\* status request has been made, tokens_left is the tokensLeft the server
\* reported, and time_to_refill can be evaluated (the status is not None) and
\* is >= 0.
C12_ConstructedWithStatus ==
    [][ (client \in {"sync", "asyncOld", "async"} /\ pc = "new" /\ pc' = "idle")
          => /\ trace'.reqs = trace.reqs + 1
             /\ sent'[Len(sent')].request = "token"
             /\ status' # NoneStatus
             /\ tokens_left' = status'.tokensLeft
             /\ time_to_refill(status', tokens_left', now') >= 0 ]_vars

-----------------------------------------------------------------------------
(* Claims about the ledger the clients keep *)

\* the tokens the client believes it has: self.tokens_left, and
\* self.user.RemainingTokens() for the threaded client
RemainingTokens == IF client = "threaded" THEN status.tokensLeft ELSE tokens_left

\* this step completes a product request successfully
ProductAnswered ==
    \/ /\ client # "threaded"
       /\ Answered
       /\ LastAnswer.request = "product"
       /\ pc' = "loop"
    \/ /\ client = "threaded"
       /\ \E w \in 1..Len(workers) : workers[w].st = "running" /\ workers'[w].st = "done"

\* C13 as stated: after every product request that completes successfully the
\* client's tokens_left equals the tokensLeft carried by that response.
C13_TokensFromResponse ==
    [][ ProductAnswered => RemainingTokens' = trace'.answered ]_vars

\* what _request of keepa_async.py stores from an answer, stored twice, is what
\* it stores once: for every answer and every status held before
StoredIdempotent ==
    \A a \in AnswersWith(ClientStatuses(0)), st \in ClientStatuses(0) \cup {NoneStatus} :
        /\ StoredStatus(a, StoredStatus(a, st)) = StoredStatus(a, st)
        /\ StoredTokens(a, StoredTokens(a, st.tokensLeft))
             = StoredTokens(a, st.tokensLeft)

\* C14: resynchronising the ledger from the same server status twice in a row
\* leaves it as it was after the first resync, whatever projections or debits
\* came before: for UserStatus.UpdateFromResponse, and for what _request of
\* keepa_async.py stores from an answer.
C14_IdempotentResync ==
    [][ (trace'.ops # trace.ops /\ trace'.op = "UpdateFromResponse")
          => /\ UpdateFromResponse(status', trace'.response) = status'
             /\ StoredIdempotent ]_vars

\* C14 witness: a resync from a response has overwritten a ledger that a
\* projection or a debit had changed
C14_ResyncedAfterOps ==
    /\ trace.op = "UpdateFromResponse"
    /\ trace.ops >= 2
    /\ trace.before.tokensLeft # status.tokensLeft
    /\ trace.before.refillIn # status.refillIn

-----------------------------------------------------------------------------
(* C15, C16: the time to refill *)

\* the delay the client in hand computes from its ledger at this instant, in
\* ms: API.WaitForTokens asks UserStatus.TimeToRefill, Keepa and AsyncKeepa
\* their own time_to_refill
TimeToRefillNow ==
    IF client = "threaded"
    THEN TimeToRefill(status, now)
    ELSE time_to_refill(status, tokens_left, now)

\* the tokens the client in hand holds: status['tokensLeft'] of UserStatus, the
\* tokens_left attribute of Keepa and AsyncKeepa
TokensNow ==
    IF client = "threaded" THEN status.tokensLeft ELSE tokens_left

\* the client holds a status answered by the server
StatusHeld == status.timestamp # None

\* C15: the time to refill is max(0, timestamp + refillIn - now + 1000) ms, plus
\* (|tokens_left| / refillRate) * 60000 ms when tokens_left < 0, and is never
\* negative (in ms; the seconds returned are this value / 1000.0).
C15_RefillFormula ==
    StatusHeld =>
        /\ TimeToRefillNow
             = Max(0, status.timestamp + status.refillIn - now + 1000)
               + (IF TokensNow < 0
                  THEN ((-TokensNow) * 60000) \div status.refillRate
                  ELSE 0)
        /\ TimeToRefillNow >= 0

\* C16: in every state where tokens are available (tokens_left > 0), the time
\* to refill is 0.
C16_ZeroWhenAvailable ==
    (StatusHeld /\ TokensNow > 0) => TimeToRefillNow = 0

-----------------------------------------------------------------------------
(* C17: the end-to-end scenario *)

\* the tokens held when the scenario starts
ScenarioTokens == (CHOOSE s \in ScenarioStatuses(0) : TRUE).tokensLeft

\* the scenario is under way with valid arguments
InScenario == trace.scenario /\ args.input = "ok" /\ args.nitems > 0

\* the number of identifiers of worker k's sub-batch
WorkerSize(k) == workers[k].hi - workers[k].lo

\* the sub-batches ProductQuery has sized so far: those handed to a thread and
\* the one waiting for the semaphore
SubBatchesSized == Len(workers) + (IF pc = "acquire" THEN 1 ELSE 0)

\* the clock has advanced between the starts of consecutive sub-batches
ClockAdvancedBetweenStarts ==
    \A k \in 2..Len(workers) : workers[k].t0 > workers[k - 1].t0

\* no worker's request has been refused so far
NoRefusalYet == \A k \in 1..Len(workers) : workers[k].ntry <= 1

-----------------------------------------------------------------------------
(* C18: where the client sleeps *)

\* this step holds a sleep: one is counted, or the clock moves
Slept == trace'.sleeps # trace.sleeps \/ now' # now

\* C18: the client sleeps only inside wait_for_tokens, and only when
\* tokens_left <= 0 after its refresh: every step that holds a sleep is the
\* sleep of wait_for_tokens (of WaitForTokens) entered with no tokens; the
\* handling of a 429 in _request and a refused worker do not sleep.
C18_SleepsOnlyInWait ==
    [][ Slept => (pc = "sleep" /\ pc' # pc /\ TokensNow <= 0) ]_vars

-----------------------------------------------------------------------------
(* C19, C20: the worker threads of ProductQuery *)

\* the workers that have been started and have not finished their request
Running == { w \in 1..Len(workers) : workers[w].st = "running" }

\* ProductQuery has created its semaphore: it did not raise before its loop
SemaCreated ==
    /\ pc \notin {"new", "idle"}
    /\ ~(outcome.state = "raised" /\ outcome.request \in {"token", "input"})

\* C19: in the threaded ProductQuery the worker threads started and not yet
\* finished are at most nthreads at every instant, the semaphore counting the
\* places left.
C19_AtMostNthreads ==
    client = "threaded" /\ pc \notin {"new", "idle"} =>
        /\ Cardinality(Running) <= args.nthreads
        /\ SemaCreated => sema = args.nthreads - Cardinality(Running)

\* C19 witness: nthreads workers are running, all places taken, and the next
\* sub-batch waits at sema.acquire()
C19_GateClosed ==
    /\ client = "threaded"
    /\ pc = "acquire"
    /\ args.nthreads = MaxThreads
    /\ Cardinality(Running) = args.nthreads
    /\ sema = 0

\* the sub-batches whose products are in the list, in the order of the list
\* (each entry is the slice <<lo, hi>> of the items it answers)
InRequestOrder ==
    \A j, k \in 1..Len(products) : j < k => products[j][2] <= products[k][1]

\* C20: the returned product list is ordered by request: all products of
\* sub-batch k come before all products of sub-batch k+1, whatever the
\* interleaving in which the requests complete.
C20_OrderedByRequest ==
    outcome.state = "returned" => InRequestOrder

-----------------------------------------------------------------------------
(* C21: the synchronous and the asynchronous client decide alike *)

\* the requests of one kind among those sent so far
SentOf(kind) == { k \in 1..Len(sent) : sent[k].request = kind }

\* what the requests of a run of Keepa obey, whatever the server answers:
\* the construction asks for the status first; with wait=True every _request
\* for products starts with wait_for_tokens, hence with a status request of
\* its own; a 200 whose body carries an error ends the run
DecidesAsKeepa ==
    /\ pc # "new" => (Len(sent) >= 1 /\ sent[1].request = "token")
    /\ args.wait => Cardinality(SentOf("token")) >= 1 + Cardinality(SentOf("product"))
    /\ \A k \in 1..Len(sent) : (sent[k].code = 200 /\ sent[k].error) => k = Len(sent)

\* C21: against the same server behaviour and with the same arguments the
\* synchronous and the asynchronous clients make the same decisions: the
\* requests of every one of them, status and product, in their order, obey
\* what the requests of Keepa obey.
C21_SameDecisions ==
    client \in {"sync", "asyncOld", "async"} => DecidesAsKeepa

-----------------------------------------------------------------------------
(* C22: the category of the error raised for a status code *)

\* this step raises to the caller
Raises == outcome.state # "raised" /\ outcome'.state = "raised"

\* this step receives a non-200 answer that _request does not retry: the
\* request was made with wait=False (every status request is), or the code is
\* not 429
Refused ==
    /\ Answered
    /\ LastAnswer.code # 200
    /\ ~(LastAnswer.code = 429 /\ LastAnswer.request = "product" /\ args.wait)

-----------------------------------------------------------------------------
(* The decoders of a product's csv: parse_csv and convert_offer_history of
   keepa/utils.py, ParseCSV of keepaAPI, _normalize_value of the stats.

   A decoded value is held in thousandths (Milli to the unit), which is exact
   for every raw integer divided by 100 and for a rating's r / 1000; an
   instant is held in minutes since 1970-01-01T00:00, the count a
   numpy datetime64[m] holds. *)

Milli == 1000

\* np.nan
NaN == None - 1

\* KEEPA_ST_ORDINAL = np.datetime64("2011-01-01"), in days since 1970-01-01
KeepaEpochDays == 14975

MinutesPerDay == 24 * 60

\* the minutes taken as minutes since 1970-01-01
keepa_minutes_to_time_NoShift(minutes) ==
    [i \in 1..Len(minutes) |-> minutes[i]]

\* keepa_minutes_to_time: timedelta64[m] of the minutes, shifted by the ordinal
keepa_minutes_to_time(minutes) ==
    [i \in 1..Len(minutes) |-> KeepaEpochDays * MinutesPerDay + minutes[i]]

\* the Python slice a[start::step] of the list a (start counted from 0)
Stride(a, start, step) ==
    LET n == IF Len(a) > start THEN (Len(a) - start + step - 1) \div step ELSE 0
    IN  [i \in 1..n |-> a[start + 1 + (i - 1) * step]]

\* csv_indices: the fields modelled, one of each kind: (key, isfloat)
csv_indices ==
    { [key |-> "NEW", isfloat |-> TRUE, shipping |-> FALSE],
      [key |-> "COUNT_NEW", isfloat |-> FALSE, shipping |-> FALSE],
      [key |-> "RATING", isfloat |-> TRUE, shipping |-> FALSE],
      [key |-> "NEW_FBM_SHIPPING", isfloat |-> TRUE, shipping |-> TRUE] }

\* `values += np.array(shipping)`: numpy adds element by element, broadcasts a
\* shipping array of one element over the values, and raises for any other
\* pair of lengths
CanAdd(values, shipping) ==
    Len(shipping) = Len(values) \/ (Len(shipping) = 1 /\ Len(values) > 1)

\* the values without the shipping
AddInPlace_NoShipping(values, shipping) ==
    [i \in 1..Len(values) |-> values[i]]

AddInPlace(values, shipping) ==
    [i \in 1..Len(values) |->
        values[i] + (IF Len(shipping) = 1 THEN shipping[1] ELSE shipping[i])]

\* the scaling of parse_csv without the factor of the rating
Scale_NoRating(values, field, out_of_stock_as_nan) ==
    [i \in 1..Len(values) |->
        IF ~field.isfloat THEN values[i] * Milli
        ELSE IF values[i] < 0 /\ out_of_stock_as_nan THEN NaN
        ELSE values[i] * (Milli \div 100)]

\* parse_csv, `if isfloat:` ... : the mask of the negative values, / 100, NaN
\* under the mask if asked, and * 10 for the rating (NaN * 10 is NaN)
Scale(values, field, out_of_stock_as_nan) ==
    [i \in 1..Len(values) |->
        IF ~field.isfloat THEN values[i] * Milli
        ELSE IF values[i] < 0 /\ out_of_stock_as_nan THEN NaN
        ELSE IF field.key = "RATING" THEN values[i] * (Milli \div 100) * 10
        ELSE values[i] * (Milli \div 100)]

\* what a decoder leaves: the times and the values of the field, or an exception
Decoded(times, values) == [state |-> "returned", times |-> times, values |-> values]

DecodeError == [state |-> "raised", times |-> <<>>, values |-> <<>>]

\* no decoder called yet
NotDecoded == [state |-> "none", times |-> <<>>, values |-> <<>>]

\* parse_csv for one field whose raw array is not empty: the slices, the sum
\* with the shipping, the scaling, the times, and the DataFrame built from the
\* values with the times as index, which raises when their lengths differ
parse_csv(raw, field, out_of_stock_as_nan) ==
    LET width  == IF field.shipping THEN 3 ELSE 2
        times  == Stride(raw, 0, width)
        first  == Stride(raw, 1, width)
        ship   == Stride(raw, 2, width)
    IN  IF field.shipping /\ ~CanAdd(first, ship) THEN DecodeError
        ELSE LET summed == IF field.shipping THEN AddInPlace(first, ship) ELSE first
                 values == Scale(summed, field, out_of_stock_as_nan)
             IN  IF Len(values) # Len(times) THEN DecodeError
                 ELSE Decoded(keepa_minutes_to_time(times), values)

\* ParseCSV of keepaAPI: the same slices and sum; every negative value of a
\* float field becomes NaN; the rating is divided by 10 after the / 100; no
\* DataFrame is built
ParseCSV_Scale(values, field) ==
    [i \in 1..Len(values) |->
        IF ~field.isfloat THEN values[i] * Milli
        ELSE IF values[i] < 0 THEN NaN
        ELSE IF field.key = "RATING" THEN (values[i] * (Milli \div 100)) \div 10
        ELSE values[i] * (Milli \div 100)]

ParseCSV(raw, field) ==
    LET width  == IF field.shipping THEN 3 ELSE 2
        times  == Stride(raw, 0, width)
        first  == Stride(raw, 1, width)
        ship   == Stride(raw, 2, width)
    IN  IF field.shipping /\ ~CanAdd(first, ship) THEN DecodeError
        ELSE LET summed == IF field.shipping THEN AddInPlace(first, ship) ELSE first
             IN  Decoded(keepa_minutes_to_time(times), ParseCSV_Scale(summed, field))

\* _normalize_value(v, isfloat, key) of the stats: None for a negative value
normalize_value(v, field) ==
    IF v < 0 THEN None
    ELSE IF ~field.isfloat THEN v * Milli
    ELSE IF field.key = "RATING" THEN v * (Milli \div 100) * 10
    ELSE v * (Milli \div 100)

\* convert_offer_history(csv): an offer's history, always [time, price,
\* shipping, ...]; prices = (price + shipping) / 100.0
convert_offer_history(raw) ==
    LET times == Stride(raw, 0, 3)
        first == Stride(raw, 1, 3)
        ship  == Stride(raw, 2, 3)
    IN  IF ~CanAdd(first, ship) THEN DecodeError
        ELSE Decoded(keepa_minutes_to_time(times),
                     [i \in 1..Len(first) |->
                         AddInPlace(first, ship)[i] * (Milli \div 100)])

\* keepa minutes, raw values and raw shipping costs of the server's arrays: -1
\* and -2 mark a sample without a price
RawTimes == {0, MinutesPerDay}

RawValues == {-2, -1, 450, 500, 750}

RawShipping == {-1, 0, 100}

\* the raw arrays of a field of records of `width` numbers: of every length up
\* to MaxRaw, whole records or not
RawArrays(width) ==
    UNION { { a \in [1..n -> RawTimes \cup RawValues \cup RawShipping] :
                \A p \in 1..n :
                    a[p] \in (IF (p - 1) % width = 0 THEN RawTimes
                              ELSE IF (p - 1) % width = 1 THEN RawValues
                              ELSE RawShipping) } : n \in 1..MaxRaw }

DecodeFrame ==
    UNCHANGED <<client, now, status, tokens_left, args, idx, products, sent,
                workers, sema, err>>

\* a csv field and the arguments a decoder is about to be called with
InitDecode ==
    /\ client = "decoder"
    /\ pc = "new"
    /\ now = 0
    /\ status = NoneStatus
    /\ tokens_left = 0
    /\ \E field \in csv_indices, nan \in BOOLEAN :
         \E raw \in RawArrays(IF field.shipping THEN 3 ELSE 2) :
            args = [field |-> field, raw |-> raw, out_of_stock_as_nan |-> nan]
    /\ idx = 0
    /\ batch = NotDecoded
    /\ products = <<>>
    /\ sent = <<>>
    /\ outcome = NoOutcome
    /\ workers = <<>>
    /\ sema = 0
    /\ err = FALSE
    /\ trace = [op |-> ""]

\* the call of one decoder; batch holds what it leaves
Decode(op, result) ==
    /\ client = "decoder"
    /\ pc = "new"
    /\ batch' = result
    /\ outcome' = [state |-> result.state, category |-> "", request |-> op]
    /\ pc' = "done"
    /\ trace' = [op |-> op]
    /\ DecodeFrame

Decode_parse_csv ==
    Decode("parse_csv", parse_csv(args.raw, args.field, args.out_of_stock_as_nan))

Decode_ParseCSV ==
    Decode("ParseCSV", ParseCSV(args.raw, args.field))

Decode_normalize_value ==
    /\ Len(args.raw) >= 2
    /\ Decode("_normalize_value",
              Decoded(<<>>, <<normalize_value(args.raw[2], args.field)>>))

Decode_convert_offer_history ==
    /\ args.field.shipping
    /\ Decode("convert_offer_history", convert_offer_history(args.raw))

NextDecode ==
    \/ Decode_parse_csv
    \/ Decode_ParseCSV
    \/ Decode_normalize_value
    \/ Decode_convert_offer_history

SpecDecode == InitDecode /\ [][NextDecode]_vars

-----------------------------------------------------------------------------
(* C23..C27: what parse_csv and the other decoders return *)

\* parse_csv has been applied to the field in args
Parsed == client = "decoder" /\ trace.op = "parse_csv"

\* record i of the raw array, of `width` numbers: its time, value and shipping
RawAt(i, width, part) == args.raw[(i - 1) * width + part]

\* a plain price field: neither shipping-inclusive, nor a count, nor the rating
PlainPrice ==
    args.field.isfloat /\ ~args.field.shipping /\ args.field.key # "RATING"

\* 2011-01-01T00:00 in minutes since 1970-01-01T00:00
Epoch2011 == (41 * 365 + 10) * 24 * 60

\* C23 as stated: for every plain price field [t0, v0, t1, v1, ...] parse_csv
\* yields values[i] = v_i / 100 and times[i] = 2011-01-01T00:00 + t_i minutes.
C23_PlainDecode ==
    (Parsed /\ PlainPrice /\ Len(args.raw) % 2 = 0) =>
        /\ batch.state = "returned"
        /\ Len(batch.values) = Len(args.raw) \div 2
        /\ Len(batch.times) = Len(args.raw) \div 2
        /\ \A i \in 1..Len(batch.values) :
             /\ batch.values[i] * 100 = RawAt(i, 2, 2) * Milli
             /\ batch.times[i] = Epoch2011 + RawAt(i, 2, 1)

\* C23 amended: the same, for the values v_i >= 0 and, when
\* out_of_stock_as_nan is false, for all values; a negative v_i decodes to NaN
\* when out_of_stock_as_nan is true.  [0, 500, 1440, 750] decodes to values
\* [5.00, 7.50] and times [epoch, epoch + 1 day].
C23_PlainDecodeInStock ==
    (Parsed /\ PlainPrice /\ Len(args.raw) % 2 = 0) =>
        /\ batch.state = "returned"
        /\ Len(batch.values) = Len(args.raw) \div 2
        /\ Len(batch.times) = Len(args.raw) \div 2
        /\ \A i \in 1..Len(batch.values) :
             /\ IF RawAt(i, 2, 2) < 0 /\ args.out_of_stock_as_nan
                THEN batch.values[i] = NaN
                ELSE batch.values[i] * 100 = RawAt(i, 2, 2) * Milli
             /\ batch.times[i] = Epoch2011 + RawAt(i, 2, 1)
        /\ args.raw = <<0, 500, 1440, 750>> =>
             /\ batch.values = <<5 * Milli, 7 * Milli + Milli \div 2>>
             /\ batch.times = <<Epoch2011, Epoch2011 + 24 * 60>>

\* C23 witness: parse_csv has decoded the plain price field [0, 500, 1440, 750]
C23_TwoSamplesDecoded ==
    /\ Parsed
    /\ PlainPrice
    /\ args.raw = <<0, 500, 1440, 750>>
    /\ batch.state = "returned"
    /\ Len(batch.values) = 2

\* a shipping-inclusive price field
ShippingPrice == args.field.isfloat /\ args.field.shipping

\* the raw value plus the raw shipping cost of record i
RawSum(i) == RawAt(i, 3, 2) + RawAt(i, 3, 3)

\* C24 as stated: for every shipping-inclusive field [t0, v0, s0, t1, v1, s1,
\* ...] parse_csv yields values[i] = (v_i + s_i) / 100 with times[i] from t_i.
C24_ShippingDecode ==
    (Parsed /\ ShippingPrice /\ Len(args.raw) % 3 = 0) =>
        /\ batch.state = "returned"
        /\ Len(batch.values) = Len(args.raw) \div 3
        /\ Len(batch.times) = Len(args.raw) \div 3
        /\ \A i \in 1..Len(batch.values) :
             /\ batch.values[i] * 100 = RawSum(i) * Milli
             /\ batch.times[i] = Epoch2011 + RawAt(i, 3, 1)

\* C24 amended: values[i] = (v_i + s_i) / 100 whenever the sum is not negative
\* and, when out_of_stock_as_nan is false, for every sum; a negative sum
\* decodes to NaN when out_of_stock_as_nan is true; convert_offer_history
\* yields (v_i + s_i) / 100 for every sum.  [0, 500, 100, 1440, 750, 0]
\* decodes to values [6.00, 7.50].
C24_ShippingDecodeInStock ==
    (client = "decoder" /\ ShippingPrice /\ Len(args.raw) % 3 = 0
       /\ trace.op \in {"parse_csv", "convert_offer_history"}) =>
        /\ batch.state = "returned"
        /\ Len(batch.values) = Len(args.raw) \div 3
        /\ Len(batch.times) = Len(args.raw) \div 3
        /\ \A i \in 1..Len(batch.values) :
             /\ IF RawSum(i) < 0 /\ args.out_of_stock_as_nan /\ trace.op = "parse_csv"
                THEN batch.values[i] = NaN
                ELSE batch.values[i] * 100 = RawSum(i) * Milli
             /\ batch.times[i] = Epoch2011 + RawAt(i, 3, 1)
        /\ args.raw = <<0, 500, 100, 1440, 750, 0>> =>
             batch.values = <<6 * Milli, 7 * Milli + Milli \div 2>>

\* C24 witness: parse_csv has decoded the shipping field
\* [0, 500, 100, 1440, 750, 0]
C24_ShippingSummed ==
    /\ Parsed
    /\ ShippingPrice
    /\ args.raw = <<0, 500, 100, 1440, 750, 0>>
    /\ batch.state = "returned"
    /\ batch.values[1] = 6 * Milli

\* C25: every price sample whose raw value is negative decodes to NaN when
\* out_of_stock_as_nan is true and to -0.01 when it is false, for every
\* negative raw value, in plain and in shipping-inclusive fields alike.
C25_OutOfStockPolicy ==
    (Parsed /\ (PlainPrice \/ ShippingPrice) /\ batch.state = "returned") =>
        LET width == IF args.field.shipping THEN 3 ELSE 2
        IN  \A i \in 1..Len(batch.values) :
                RawAt(i, width, 2) < 0 =>
                    batch.values[i] = (IF args.out_of_stock_as_nan
                                       THEN NaN
                                       ELSE -(Milli \div 100))

\* the decoders that scale a rating, and the raw rating each was given
RatingDecoders == {"parse_csv", "ParseCSV", "_normalize_value"}

\* C26: a raw rating r >= 0 decodes to r / 100 * 10 in every decoder of the
\* repository (parse_csv, ParseCSV and the stats normaliser); raw 450 decodes
\* to 45.0.
C26_RatingScale ==
    (client = "decoder" /\ trace.op \in RatingDecoders /\ args.field.key = "RATING"
       /\ batch.state = "returned") =>
        \A i \in 1..Len(batch.values) :
            RawAt(i, 2, 2) >= 0 =>
                /\ batch.values[i] * 100 = RawAt(i, 2, 2) * Milli * 10
                /\ RawAt(i, 2, 2) = 450 => batch.values[i] = 45 * Milli

\* the number of numbers in one record of the field in args
RecordWidth == IF args.field.shipping THEN 3 ELSE 2

\* C27: parse_csv never returns a field whose times and values differ in
\* length: for a raw array whose length is not a multiple of the record width
\* (2 for plain, 3 for shipping fields) it fails instead of returning
\* misaligned times and values.
C27_FailsOnRaggedArray ==
    Parsed =>
        /\ batch.state = "returned" => Len(batch.times) = Len(batch.values)
        /\ Len(args.raw) % RecordWidth # 0 => batch.state = "raised"

-----------------------------------------------------------------------------
(* format_items: the product codes of a query, made unique and sorted.  A
   product code is held as its rank in the order of the strings. *)

\* the product codes a caller can put in a list
ItemCodes == 1..3

\* the lists a caller can pass
ItemLists == UNION { [1..n -> ItemCodes] : n \in 0..MaxItems }

RECURSIVE Insert(_, _)
\* x put in its place in the sorted sequence s
Insert(x, s) ==
    IF s = <<>> THEN <<x>>
    ELSE IF x <= Head(s) THEN <<x>> \o s
    ELSE <<Head(s)>> \o Insert(x, Tail(s))

RECURSIVE Sorted(_)
\* the elements of s in ascending order
Sorted(s) == IF s = <<>> THEN <<>> ELSE Insert(Head(s), Sorted(Tail(s)))

RECURSIVE DropRepeats(_)
\* the sorted sequence s without the elements equal to their predecessor
DropRepeats(s) ==
    IF Len(s) <= 1 THEN s
    ELSE IF s[1] = s[2] THEN DropRepeats(Tail(s))
    ELSE <<s[1]>> \o DropRepeats(Tail(s))

\* the list sorted, its repeats kept
np_unique_KeepRepeats(items) == Sorted(items)

\* np.unique(items): the sorted unique elements of the array
np_unique(items) == DropRepeats(Sorted(items))

\* format_items(items) for a list or an array
format_items(items) == np_unique(items)

InitItems ==
    /\ client = "items"
    /\ pc = "new"
    /\ now = 0
    /\ status = NoneStatus
    /\ tokens_left = 0
    /\ \E items \in ItemLists : args = [items |-> items]
    /\ idx = 0
    /\ batch = NoBatch
    /\ products = <<>>
    /\ sent = <<>>
    /\ outcome = NoOutcome
    /\ workers = <<>>
    /\ sema = 0
    /\ err = FALSE
    /\ trace = [op |-> "", given |-> <<>>]

ItemsFrame ==
    UNCHANGED <<client, now, status, tokens_left, args, idx, batch, sent, outcome,
                workers, sema, err>>

\* format_items(items) on the caller's list; products holds what it returns
Items_format ==
    /\ client = "items"
    /\ pc = "new"
    /\ products' = format_items(args.items)
    /\ trace' = [op |-> "format_items", given |-> args.items]
    /\ pc' = "formatted"
    /\ ItemsFrame

\* format_items applied to what format_items returned
Items_format_again ==
    /\ client = "items"
    /\ pc = "formatted"
    /\ products' = format_items(products)
    /\ trace' = [op |-> "format_items", given |-> products]
    /\ pc' = "done"
    /\ ItemsFrame

NextItems == Items_format \/ Items_format_again

SpecItems == InitItems /\ [][NextItems]_vars

\* the elements of a sequence
Elements(s) == { s[i] : i \in 1..Len(s) }

\* C28: format_items applied to a list returns exactly its distinct elements
\* in sorted order (no duplicate, nothing added, nothing lost), it is
\* idempotent, and on a list that is already duplicate-free it returns the
\* same number of elements.
C28_UniqueSorted ==
    (client = "items" /\ trace.op = "format_items") =>
        /\ \A i \in 1..(Len(products) - 1) : products[i] < products[i + 1]
        /\ Elements(products) = Elements(trace.given)
        /\ Cardinality(Elements(trace.given)) = Len(trace.given)
             => Len(products) = Len(trace.given)
        /\ pc = "done" => products = trace.given

\* C28 witness: format_items has been given a list with a repeat and out of
\* order, and then its own result
C28_FormattedTwice ==
    /\ client = "items"
    /\ pc = "done"
    /\ Len(args.items) > Len(products)
    /\ args.items # Sorted(args.items)
    /\ Len(products) >= 2

-----------------------------------------------------------------------------
(* C30: the timestamp of the ledger *)

\* C30: across every sequence of ledger operations (local projection, debit,
\* resync from a server status or response) the ledger's timestamp never
\* decreases.
C30_TimestampMonotone ==
    [][status'.timestamp >= status.timestamp]_vars

-----------------------------------------------------------------------------
(* Claims about what wait_for_tokens leaves behind *)

\* a step in which wait_for_tokens / WaitForTokens returns after its sleep
ReturnsAfterSleep ==
    \/ client \in {"sync", "asyncOld", "async"} /\ pc = "wft2" /\ pc' = WaitReturn
    \/ client = "threaded" /\ pc = "sleep" /\ pc' = "acquire"

\* a step in which a status request is answered and its status is stored
FetchesStatus ==
    /\ trace'.reqs = trace.reqs + 1
    /\ status'.timestamp = now'

\* C31: whenever wait_for_tokens sleeps, the ledger is refreshed from a freshly
\* fetched server status after the sleep and before wait_for_tokens returns:
\* what the caller reads is never a purely local projection.
C31_RefreshedAfterSleep ==
    [][ReturnsAfterSleep => FetchesStatus]_vars

-----------------------------------------------------------------------------
(* Claims about the ledger of the threaded client under concurrency *)

\* a step in which ProductQuery starts the thread of a sub-batch
StartsWorker == Len(workers') > Len(workers)

\* a step of a ThreadRequest thread: its requests, products.extend or err[0],
\* and sema.release()
WorkerStep == \E w \in 1..Len(workers) : workers'[w] # workers[w]

\* the ledger holds the debit of the sub-batch in `batch`: the tokens that
\* WaitForTokens left, less nrequest
Debited == status.tokensLeft = batch.tokens - batch.nrequest

\* C32: in the threaded ProductQuery the debit for a sub-batch is applied
\* before the thread that sends the sub-batch's request is started, and the
\* ledger is mutated by the dispatcher alone: a worker's step and the start of
\* a worker leave it as it is, so no update of it is lost to an interleaving.
C32_DebitBeforeSend ==
    [][/\ StartsWorker => pc = "acquire" /\ Debited /\ status' = status
       /\ WorkerStep => status' = status]_vars

\* C32 witness: the debit of a second sub-batch is in the ledger while the
\* worker of the first is still running
C32_DebitedWhileRunning ==
    /\ client = "threaded"
    /\ pc = "acquire"
    /\ Len(workers) = 1
    /\ workers[1].st = "running"
    /\ batch.nrequest > 0
    /\ Debited

-----------------------------------------------------------------------------
(* Claims about what the ledger operations raise *)

\* the exception of a ledger operation: time_to_refill evaluated on a status
\* whose timestamp and refillIn are None
LedgerRaised == outcome.state = "raised" /\ outcome.category = "TypeError"

\* C33: no ledger operation (initialise, resync, local projection, debit,
\* time_to_refill) raises, in any ledger state a client reaches from its
\* construction on and for every status the server reports.
C33_LedgerNeverRaises == ~LedgerRaised

-----------------------------------------------------------------------------
(* _domain_to_dcode: the domain argument of a request, converted to its code *)

\* class Domain(Enum): the members in the order of their definition, each with
\* its value
Domain ==
    << [name |-> "RESERVED",  value |-> "RESERVED"],
       [name |-> "US",        value |-> "US"],
       [name |-> "GB",        value |-> "GB"],
       [name |-> "DE",        value |-> "DE"],
       [name |-> "FR",        value |-> "FR"],
       [name |-> "JP",        value |-> "JP"],
       [name |-> "CA",        value |-> "CA"],
       [name |-> "RESERVED2", value |-> "RESERVED2"],
       [name |-> "IT",        value |-> "IT"],
       [name |-> "ES",        value |-> "ES"],
       [name |-> "IN",        value |-> "IN"],
       [name |-> "MX",        value |-> "MX"],
       [name |-> "BR",        value |-> "BR"] >>

\* DCODES of constants.py; DCODES[i] is the locale of the code i - 1
DCODES ==
    << "RESERVED", "US", "GB", "DE", "FR", "JP", "CA", "CN", "IT", "ES", "IN", "MX",
       "BR" >>

\* `x in table` and table.index(x) of a Python list, the index counted from 0
InList(table, x) == \E i \in 1..Len(table) : table[i] = x

ListIndex(table, x) ==
    (CHOOSE i \in 1..Len(table) :
        table[i] = x /\ \A j \in 1..(i - 1) : table[j] # x) - 1

\* the result of a conversion: a code, or ValueError
DomainCode(i) == [raised |-> FALSE, code |-> i]

DomainValueError == [raised |-> TRUE, code |-> None]

\* _domain_to_dcode(domain): domain.value for a member of Domain, the string
\* itself otherwise; ValueError when DCODES does not hold it
domain_to_dcode(domain) ==
    LET domain_str == domain.value
    IN  IF ~InList(DCODES, domain_str)
        THEN DomainValueError
        ELSE DomainCode(ListIndex(DCODES, domain_str))

\* the domain arguments a caller can pass: a member of Domain, or a string (a
\* locale of DCODES, a member's value, a lower-case locale, an unknown one)
DomainArgs ==
    { [isDomain |-> TRUE, value |-> Domain[i].value] : i \in 1..Len(Domain) }
    \cup
    { [isDomain |-> FALSE, value |-> s] :
        s \in { DCODES[i] : i \in 1..Len(DCODES) } \cup {"RESERVED2", "us", "XX"} }

\* the methods of AsyncKeepa that convert their domain argument
DomainMethods ==
    {"_product_query", "best_sellers_query", "search_for_categories",
     "category_lookup", "seller_query", "product_finder", "deals"}

InitDomain ==
    /\ client = "domain"
    /\ pc = "new"
    /\ now = 0
    /\ status = NoneStatus
    /\ tokens_left = 0
    /\ \E d \in DomainArgs, m \in DomainMethods : args = [domain |-> d, method |-> m]
    /\ idx = 0
    /\ batch = DomainValueError
    /\ products = <<>>
    /\ sent = <<>>
    /\ outcome = NoOutcome
    /\ workers = <<>>
    /\ sema = 0
    /\ err = FALSE
    /\ trace = [op |-> ""]

\* the method's _domain_to_dcode(domain); batch holds what it returns
Domain_convert ==
    /\ client = "domain"
    /\ pc = "new"
    /\ batch' = domain_to_dcode(args.domain)
    /\ IF batch'.raised
       THEN Raise("ValueError", "input")
       ELSE pc' = "converted" /\ UNCHANGED outcome
    /\ trace' = [op |-> "_domain_to_dcode"]
    /\ UNCHANGED <<client, now, status, tokens_left, args, idx, products, sent,
                   workers, sema, err>>

NextDomain == Domain_convert

SpecDomain == InitDomain /\ [][NextDomain]_vars

\* the position, counted from 0, of the member with value v in the enumeration
MemberPosition(v) == (CHOOSE i \in 1..Len(Domain) : Domain[i].value = v) - 1

\* C34: every member of the Domain enumeration converts through
\* _domain_to_dcode to an index 0..12 of the locale table without raising, and
\* that index is the member's position in the table RESERVED, US, GB, DE, FR,
\* JP, CA, CN/RESERVED2, IT, ES, IN, MX, BR.
C34_MemberToIndex ==
    (client = "domain" /\ trace.op = "_domain_to_dcode" /\ args.domain.isDomain) =>
        /\ ~batch.raised
        /\ batch.code \in 0..(Len(DCODES) - 1)
        /\ batch.code = MemberPosition(args.domain.value)

-----------------------------------------------------------------------------
(* Claims about the progress of the threaded dispatch loop *)

\* a step in which ProductQuery assembles and debits a sub-batch
Dispatches == client = "threaded" /\ pc # "acquire" /\ pc' = "acquire"

\* C36: in the threaded ProductQuery every loop iteration dispatches a
\* sub-batch of at least one identifier and strictly increases the dispatch
\* index, for every ledger state WaitForTokens can leave behind: the index
\* never decreases or stays put and no empty list of identifiers is requested.
C36_DispatchProgress ==
    [][Dispatches =>
          /\ batch'.nrequest >= 1
          /\ batch'.hi > batch'.lo
          /\ idx' > idx]_vars

-----------------------------------------------------------------------------
(* SpecLive: Keepa and AsyncKeepa asked for products by a caller, every
   request answered, and a server that stops answering 429 *)

\* the product requests a query of n items needs when none is refused
BatchesOf(n) == (n + REQUEST_LIMIT - 1) \div REQUEST_LIMIT

\* the requests one sub-batch takes at most when it is not refused: the two
\* status requests of wait_for_tokens and the product request
RequestsOf(batches) == (1 + 1 + 1) * batches

\* the server stops answering 429: it refuses a product request for want of
\* tokens only while the requests that are left to this run suffice for the
\* retry and for the sub-batches that follow
ServerRelents ==
    (/\ Len(sent') > Len(sent)
     /\ sent'[Len(sent')].request = "product"
     /\ sent'[Len(sent')].code = 429)
        => trace'.reqs + RequestsOf(BatchesOf(args.nitems - idx)) <= MaxRequests

\* query(items, wait=...) with a list that the requests left to this run
\* suffice for
Live_query_call ==
    /\ query_call
    /\ trace.reqs + RequestsOf(BatchesOf(args'.nitems)) <= MaxRequests

\* the product request of Keepa and of AsyncKeepa in src/keepa/interface.py
Live_Keepa_request == Keepa_request /\ ServerRelents

\* the product request of AsyncKeepa in keepa_async.py
Live_AsyncKeepa_request == AsyncKeepa_request /\ ServerRelents

InitLive ==
    /\ client \in {"sync", "asyncOld", "async"}
    /\ pc = "new"
    /\ now = 0
    /\ status = NoneStatus
    /\ tokens_left = 0
    /\ args = NoArgs
    /\ idx = 0
    /\ batch = NoBatch
    /\ products = <<>>
    /\ sent = <<>>
    /\ outcome = NoOutcome
    /\ workers = <<>>
    /\ sema = 0
    /\ err = FALSE
    /\ trace = [reqs |-> 0, sleeps |-> 0, cause |-> "", answered |-> None,
                scenario |-> FALSE, refused |-> 0]

NextLive ==
    \/ Keepa_init
    \/ AsyncKeepa_create
    \/ Live_query_call
    \/ query_loop
    \/ AsyncKeepa_wait_for_tokens
    \/ wait_for_tokens_update
    \/ wait_for_tokens_sleep
    \/ wait_for_tokens_refresh
    \/ Live_Keepa_request
    \/ Live_AsyncKeepa_request

\* the client is one sequential program: it takes its next step, and the
\* request it waits on is answered
SpecLive == InitLive /\ [][NextLive]_vars /\ WF_vars(NextLive)

\* the query is over: it returned, or raised
QueryOver == pc \in {"done", "raised"}

\* C37: a query with wait=true eventually returns or raises, provided every
\* request is eventually answered and the server eventually stops answering
\* 429; and wait_for_tokens never re-enters itself through its own status
\* request: no step made inside it leads to its start.
C37_WaitingQueryEnds ==
    /\ [][(pc \in {"wft1", "sleep", "wft2"}) => (pc' # "wft1")]_vars
    /\ ((pc = "loop" /\ args.wait) ~> QueryOver)

\* C37 witness: a query with wait=true returned after a product request of
\* its own was answered 429 and it slept
C37_ReturnedAfterRefusal ==
    /\ args.wait
    /\ outcome.state = "returned"
    /\ trace.sleeps >= 1
    /\ \E i \in 1..Len(sent) : sent[i].request = "product" /\ sent[i].code = 429

-----------------------------------------------------------------------------
(* SpecLegacy: API.ProductQuery and ThreadRequest of keepaAPI/Interface.py *)

\* how many of the two requests of a worker the server refuses
LegacyRefusals == 0..(1 + 1)

\* ProductQuery(asins, nthreads=...) of Interface.py up to its loop: it has no
\* test of offers and no allow_errors
Legacy_ProductQuery_call ==
    /\ client = "legacy"
    /\ ProductQuery_call
    /\ args'.input # "offers"
    /\ ~args'.allow_errors

\* ThreadRequest of Interface.py for worker w, whole.  A first failure is
\* logged with '{:s}'.format(e), which raises TypeError where str.format does
\* not accept a format spec for an exception (handlerRaises) and otherwise is
\* followed by time.sleep(60) and the second request.  Any exception reaches
\* the bare except, which binds the local err, and then logging.err, which
\* logging does not have: AttributeError ends the thread before
\* sema.release().  err of ProductQuery is never touched.
Legacy_ThreadRequest(w) ==
    /\ client = "legacy"
    /\ workers[w].st = "running"
    /\ \E k \in LegacyRefusals, handlerRaises \in BOOLEAN :
         LET me      == workers[w]
             toomany == me.hi - me.lo > REQUEST_LIMIT \/ args.input = "domain"
             refused == IF toomany THEN Max(1, k) ELSE k
             retried == refused >= 1 /\ ~handlerRaises
             died    == (refused >= 1 /\ handlerRaises) \/ refused >= 1 + 1
                          \/ (toomany /\ retried)
         IN  /\ now' = IF retried THEN Max(now, me.t0 + RetrySleepMs) ELSE now
             /\ IF died
                THEN /\ workers' = [workers EXCEPT ![w] =
                                      [me EXCEPT !.st = "died", !.ntry = refused]]
                     /\ UNCHANGED <<products, sema>>
                ELSE /\ workers' = [workers EXCEPT ![w] =
                                      [me EXCEPT !.st = "done", !.ntry = refused + 1]]
                     /\ products' = Append(products, <<me.lo, me.hi>>)
                     /\ sema' = sema + 1
    /\ UNCHANGED <<client, pc, status, tokens_left, args, idx, batch, sent, outcome,
                   err, trace>>

InitLegacy ==
    /\ client = "legacy"
    /\ pc = "new"
    /\ now = 0
    /\ status = NoneStatus
    /\ tokens_left = 0
    /\ args = NoArgs
    /\ idx = 0
    /\ batch = NoBatch
    /\ products = <<>>
    /\ sent = <<>>
    /\ outcome = NoOutcome
    /\ workers = <<>>
    /\ sema = 0
    /\ err = FALSE
    /\ trace = [reqs |-> 0, sleeps |-> 0, cause |-> "", answered |-> None,
                scenario |-> FALSE, refused |-> 0]

NextLegacy ==
    \/ API_init
    \/ Legacy_ProductQuery_call
    \/ ProductQuery_loop
    \/ ProductQuery_wake
    \/ ProductQuery_start
    \/ \E w \in 1..Len(workers) : Legacy_ThreadRequest(w)
    \/ ProductQuery_join

SpecLegacy == InitLegacy /\ [][NextLegacy]_vars

\* a step in which a ThreadRequest thread ends
WorkerEnds ==
    \E w \in 1..Len(workers) : workers[w].st = "running" /\ workers'[w].st # "running"

\* C38: every worker thread of the threaded ProductQuery releases the
\* semaphore exactly once on every path, whether its request succeeds or
\* fails, so that the dispatcher's acquire never blocks for ever and
\* ProductQuery joins its workers and returns or raises.
C38_ReleasesOnce ==
    [][WorkerEnds => sema' = sema + 1]_vars

-----------------------------------------------------------------------------
(* Claims about the two copies of the balance that Keepa and AsyncKeepa hold *)

\* the client is between two operations of its caller: constructed and not
\* yet asked, or its query has returned
BetweenOperations ==
    /\ client \in {"sync", "asyncOld", "async"}
    /\ pc \in {"idle", "done"}

\* C39: between operations the client holds one consistent ledger:
\* tokens_left equals status["tokensLeft"], the status that time_to_refill
\* reads being the one of the server response that last set tokens_left.
C39_OneLedger ==
    BetweenOperations => tokens_left = status.tokensLeft

=============================================================================
